---- MODULE Spec2Model ----
(***************************************************************************)
(* ClearEdge invoice checker, src/src/App.tsx.                             *)
(*                                                                         *)
(*   - validateInvoiceLocally, extractMeta, req: the rule engine and the   *)
(*     report composer (lines 205-236);                                    *)
(*   - csvToInvoice: the one-row CSV decoder (line 238);                   *)
(*   - UploadAndValidate: the component state and its handlers onFiles     *)
(*     (async, one suspension point at file.text()) and loadSample         *)
(*     (lines 52-88).                                                      *)
(*                                                                         *)
(* JavaScript strings are tuples of one-character strings, so that the     *)
(* regular expressions, trim, split and String() are computed character by *)
(* character.  JavaScript numbers are decimal fractions m / 10^e; the      *)
(* inputs drawn below have at most MaxFrac fractional digits and stay far  *)
(* from the VAT tolerance, where binary floating point and decimal         *)
(* arithmetic agree.  NaN and the infinities are not drawn (neither        *)
(* JSON.parse nor csvToInvoice produces them).                             *)
(***************************************************************************)
EXTENDS Integers, Sequences, FiniteSets

VARIABLES
  fileName,    \* useState fileName   (line 53)
  rawInvoice,  \* useState rawInvoice (line 54)
  report,      \* useState report     (line 55)
  loading,     \* useState loading    (line 56)
  calls,       \* the onFiles invocations made so far, in order
  inv,         \* argument of the validateInvoiceLocally call under test
  out,         \* its outcome
  text,        \* argument of the csvToInvoice call under test
  obj          \* its outcome

vars == <<fileName, rawInvoice, report, loading, calls, inv, out, text, obj>>

----------------------------------------------------------------------------
(* Bounds of the model.                                                    *)

\* onFiles invocations in one behaviour
MaxUploads == 2

\* fractional digits of the numbers drawn
MaxFrac == 2

----------------------------------------------------------------------------
(* JavaScript values.                                                      *)

Value(t, s, m, e) == [t |-> t, s |-> s, m |-> m, e |-> e]

Undefined == Value("undefined", <<>>, 0, 0)

Null == Value("null", <<>>, 0, 0)

Str(s) == Value("string", s, 0, 0)

True == Value("boolean", <<>>, 1, 0)

\* a nested object or array
Obj == Value("object", <<>>, 0, 0)

RECURSIVE Pow10(_)
Pow10(k) == IF k = 0 THEN 1 ELSE 10 * Pow10(k - 1)

\* the number m / 10^e, in lowest terms of e
RECURSIVE Num(_, _)
Num(m, e) ==
  IF e > 0 /\ m % 10 = 0 THEN Num(m \div 10, e - 1)
  ELSE Value("number", <<>>, m, e)

Max(a, b) == IF a >= b THEN a ELSE b

Min(a, b) == IF a <= b THEN a ELSE b

Abs(a) == IF a >= 0 THEN a ELSE -a

\* ToBoolean, as applied by ! and &&
Truthy(v) ==
  CASE v.t = "undefined" -> FALSE
    [] v.t = "null"      -> FALSE
    [] v.t = "string"    -> v.s # <<>>
    [] v.t = "number"    -> v.m # 0
    [] v.t = "boolean"   -> v.m = 1
    [] OTHER             -> TRUE

\* x == null
IsNullish(v) == v.t \in {"undefined", "null"}

\* typeof x === 'number'
IsNumber(v) == v.t = "number"

DigitChars == <<"0", "1", "2", "3", "4", "5", "6", "7", "8", "9">>

IsDigit(c) == \E d \in 1..10 : DigitChars[d] = c

RECURSIVE NatString(_)
NatString(n) ==
  IF n < 10 THEN <<DigitChars[n + 1]>>
  ELSE NatString(n \div 10) \o <<DigitChars[(n % 10) + 1]>>

RECURSIVE PadLeft(_, _)
PadLeft(s, n) == IF Len(s) >= n THEN s ELSE PadLeft(<<"0">> \o s, n)

NumberString(v) ==
  LET a    == Abs(v.m)
      sign == IF v.m < 0 THEN <<"-">> ELSE <<>>
  IN  IF v.e = 0 THEN sign \o NatString(a)
      ELSE sign \o NatString(a \div Pow10(v.e)) \o <<".">>
                \o PadLeft(NatString(a % Pow10(v.e)), v.e)

\* String(x)
String(v) ==
  CASE v.t = "string"    -> v.s
    [] v.t = "number"    -> NumberString(v)
    [] v.t = "boolean"   -> IF v.m = 1 THEN <<"t", "r", "u", "e">> ELSE <<"f", "a", "l", "s", "e">>
    [] v.t = "null"      -> <<"n", "u", "l", "l">>
    [] v.t = "undefined" -> <<"u", "n", "d", "e", "f", "i", "n", "e", "d">>
    [] OTHER             -> <<"[", "o", "b", "j", "e", "c", "t", " ", "O", "b", "j", "e", "c", "t", "]">>

\* /^\d{9}$/.test(s)
IsNineDigits(s) == Len(s) = 9 /\ \A i \in 1..Len(s) : IsDigit(s[i])

----------------------------------------------------------------------------
(* Input records: what JSON.parse or csvToInvoice hands to the validator.  *)
(* k is "object", "null", "undefined" or "primitive" (a JSON number,       *)
(* string or boolean at top level, which has none of the fields).          *)

Fields == {"supplierVat", "customerVat", "date", "total", "vat", "currency", "invoiceId"}

NoFields == [x \in Fields |-> Undefined]

Object(f) == [k |-> "object", f |-> f]

NullInv == [k |-> "null", f |-> NoFields]

UndefinedInv == [k |-> "undefined", f |-> NoFields]

PrimitiveInv == [k |-> "primitive", f |-> NoFields]

\* inv?.x
Get(i, x) == IF i.k = "object" THEN i.f[x] ELSE Undefined

\* a record with field x set to v, all other fields held equal
With(i, x, v) == Object([i.f EXCEPT ![x] = v])

----------------------------------------------------------------------------
(* The rule engine.  The static message texts are stood for by the rule    *)
(* code; the fix text is left out.                                         *)

req(code, severity) == [code |-> code, severity |-> severity, message |-> code]

SupplierVatRule(i) ==
  IF ~Truthy(Get(i, "supplierVat")) THEN <<req("SUPPLIER_VAT", "HIGH")>> ELSE <<>>

CustomerVatRule(i) ==
  IF ~Truthy(Get(i, "customerVat")) THEN <<req("CUSTOMER_VAT", "MED")>> ELSE <<>>

DateRule(i) ==
  IF ~Truthy(Get(i, "date")) THEN <<req("DATE", "MED")>> ELSE <<>>

TotalRule(i) ==
  IF IsNullish(Get(i, "total")) THEN <<req("TOTAL", "HIGH")>> ELSE <<>>

VatRule(i) ==
  IF IsNullish(Get(i, "vat")) THEN <<req("VAT", "MED")>> ELSE <<>>

SupplierVatFmtRule(i) ==
  IF Truthy(Get(i, "supplierVat")) /\ ~IsNineDigits(String(Get(i, "supplierVat")))
  THEN <<req("SUPPLIER_VAT_FMT", "HIGH")>> ELSE <<>>

\* mutant: the customer format finding given the supplier rule's severity
CustomerVatFmtRuleHigh(i) ==
  IF Truthy(Get(i, "customerVat")) /\ ~IsNineDigits(String(Get(i, "customerVat")))
  THEN <<req("CUSTOMER_VAT_FMT", "HIGH")>> ELSE <<>>

CustomerVatFmtRule(i) ==
  IF Truthy(Get(i, "customerVat")) /\ ~IsNineDigits(String(Get(i, "customerVat")))
  THEN <<req("CUSTOMER_VAT_FMT", "MED")>> ELSE <<>>

\* vatRate = 0.17, as hundredths
VatRatePercent == 17

\* subtotal = total - vat, as an integer number of 10^-E
Subtotal(total, vat, E) ==
  total.m * Pow10(E - total.e) - vat.m * Pow10(E - vat.e)

\* Math.round(subtotal * vatRate * 100): an integer number of hundredths;
\* Math.round rounds halves towards +Infinity
ExpectedVatCents(subtotal, E) ==
  (2 * VatRatePercent * subtotal + Pow10(E)) \div (2 * Pow10(E))

\* Math.abs(expectedVat - vat) > 1
DiffAboveOne(expectedCents, vat) ==
  LET S == Max(2, vat.e)
  IN  Abs(expectedCents * Pow10(S - 2) - vat.m * Pow10(S - vat.e)) > Pow10(S)

\* mutant: VAT_MISMATCH raised as HIGH
VatMismatchIssueHigh == <<req("VAT_MISMATCH", "HIGH")>>

VatMismatchIssue == <<req("VAT_MISMATCH", "MED")>>

SubtotalNegIssue == <<req("SUBTOTAL_NEG", "HIGH")>>

\* mutant: the two arithmetic findings pushed in the other order
ArithmeticRuleSwapped(i) ==
  LET total == Get(i, "total")
      vat   == Get(i, "vat")
  IN  IF IsNumber(total) /\ IsNumber(vat)
      THEN LET E        == Max(total.e, vat.e)
               subtotal == Subtotal(total, vat, E)
           IN  (IF subtotal <= 0 THEN SubtotalNegIssue ELSE <<>>)
               \o (IF DiffAboveOne(ExpectedVatCents(subtotal, E), vat)
                   THEN VatMismatchIssue ELSE <<>>)
      ELSE <<>>

\* lines 216-222; reached only with inv not null/undefined
ArithmeticRule(i) ==
  LET total == Get(i, "total")
      vat   == Get(i, "vat")
  IN  IF IsNumber(total) /\ IsNumber(vat)
      THEN LET E        == Max(total.e, vat.e)
               subtotal == Subtotal(total, vat, E)
           IN  (IF DiffAboveOne(ExpectedVatCents(subtotal, E), vat)
                THEN VatMismatchIssue ELSE <<>>)
               \o (IF subtotal <= 0 THEN SubtotalNegIssue ELSE <<>>)
      ELSE <<>>

supportedCurrencies == {Str(<<"I", "L", "S">>), Str(<<"U", "S", "D">>), Str(<<"E", "U", "R">>)}

CurrencyRule(i) ==
  IF Truthy(Get(i, "currency")) /\ Get(i, "currency") \notin supportedCurrencies
  THEN <<req("CURRENCY_UNSUPPORTED", "LOW")>> ELSE <<>>

InvoiceIdRule(i) ==
  IF Truthy(Get(i, "invoiceId")) /\ Len(String(Get(i, "invoiceId"))) < 3
  THEN <<req("INVOICE_ID_WEAK", "LOW")>> ELSE <<>>

\* the issues array after line 227
Issues(i) ==
  SupplierVatRule(i) \o CustomerVatRule(i) \o DateRule(i) \o TotalRule(i)
    \o VatRule(i) \o SupplierVatFmtRule(i) \o CustomerVatFmtRule(i)
    \o ArithmeticRule(i) \o CurrencyRule(i) \o InvoiceIdRule(i)

----------------------------------------------------------------------------
(* The report composer.                                                    *)

\* mutant: a MED finding costs 10
PenaltyMedTen(severity) ==
  IF severity = "HIGH" THEN 25 ELSE IF severity = "MED" THEN 10 ELSE 5

Penalty(severity) ==
  IF severity = "HIGH" THEN 25 ELSE IF severity = "MED" THEN 12 ELSE 5

\* issues.reduce((acc, it) => acc + penalty(it), 0)
RECURSIVE Reduce(_)
Reduce(issues) ==
  IF issues = <<>> THEN 0
  ELSE Reduce(SubSeq(issues, 1, Len(issues) - 1)) + Penalty(issues[Len(issues)].severity)

Score(issues) == Max(0, Min(100, 100 - Reduce(issues)))

\* mutant: the GREEN band starts at 80
LevelOfEighty(score) ==
  IF score >= 80 THEN "GREEN" ELSE IF score >= 60 THEN "YELLOW" ELSE "RED"

LevelOf(score) ==
  IF score >= 85 THEN "GREEN" ELSE IF score >= 60 THEN "YELLOW" ELSE "RED"

\* x ?? d
Coalesce(v, d) == IF IsNullish(v) THEN d ELSE v

extractMeta(i) ==
  [supplierVat |-> Coalesce(Get(i, "supplierVat"), Str(<<>>)),
   customerVat |-> Coalesce(Get(i, "customerVat"), Str(<<>>)),
   total       |-> Coalesce(Get(i, "total"), Str(<<>>)),
   vat         |-> Coalesce(Get(i, "vat"), Str(<<>>)),
   date        |-> Coalesce(Get(i, "date"), Str(<<>>)),
   currency    |-> Coalesce(Get(i, "currency"), Str(<<"I", "L", "S">>))]

\* report === null
NoReport == [isNull |-> TRUE]

Report(level, score, issues, meta) ==
  [isNull |-> FALSE, level |-> level, score |-> score, issues |-> issues, meta |-> meta]

\* The outcome of one call: threw is TRUE when the call raises (inv.total at
\* line 216 is an unguarded property read, a TypeError on null and undefined).
validateInvoiceLocally(i) ==
  IF i.k \in {"null", "undefined"}
  THEN [threw |-> TRUE, report |-> NoReport]
  ELSE LET issues == Issues(i)
           score  == Score(issues)
       IN  [threw |-> FALSE,
            report |-> Report(LevelOf(score), score, issues, extractMeta(i))]

sampleInvoice ==
  Object([supplierVat |-> Str(<<"5", "1", "2", "3", "4", "5", "6", "7", "9">>),
          customerVat |-> Str(<<"5", "9", "8", "7", "6", "5", "4", "3", "1">>),
          invoiceId   |-> Str(<<"I", "N", "V", "-", "2", "0", "2", "5", "-", "0", "0", "1", "2", "3">>),
          date        |-> Str(<<"2", "0", "2", "5", "-", "0", "9", "-", "1", "2">>),
          currency    |-> Str(<<"I", "L", "S">>),
          vat         |-> Num(170, 0),
          total       |-> Num(1000, 0)])

----------------------------------------------------------------------------
(* csvToInvoice (line 238).                                                *)

\* the white space String.prototype.trim strips, among the characters drawn
IsSpace(c) == c \in {" ", "\t", "\n", "\r"}

RECURSIVE TrimStart(_)
TrimStart(s) ==
  IF s # <<>> /\ IsSpace(s[1]) THEN TrimStart(Tail(s)) ELSE s

RECURSIVE TrimEnd(_)
TrimEnd(s) ==
  IF s # <<>> /\ IsSpace(s[Len(s)]) THEN TrimEnd(SubSeq(s, 1, Len(s) - 1)) ELSE s

\* s.trim()
trim(s) == TrimEnd(TrimStart(s))

\* s.split(/\r?\n/)
RECURSIVE SplitLines(_)
SplitLines(s) ==
  IF \E n \in 1..Len(s) : s[n] = "\n"
  THEN LET n    == CHOOSE k \in 1..Len(s) :
                     s[k] = "\n" /\ \A j \in 1..(k - 1) : s[j] # "\n"
           stop == IF n > 1 /\ s[n - 1] = "\r" THEN n - 2 ELSE n - 1
       IN  <<SubSeq(s, 1, stop)>> \o SplitLines(SubSeq(s, n + 1, Len(s)))
  ELSE <<s>>

\* s.split(',')
RECURSIVE SplitCommas(_)
SplitCommas(s) ==
  IF \E n \in 1..Len(s) : s[n] = ","
  THEN LET n == CHOOSE k \in 1..Len(s) :
                  s[k] = "," /\ \A j \in 1..(k - 1) : s[j] # ","
       IN  <<SubSeq(s, 1, n - 1)>> \o SplitCommas(SubSeq(s, n + 1, Len(s)))
  ELSE <<s>>

\* cells.map(s => s.trim())
TrimAll(cells) == [n \in 1..Len(cells) |-> trim(cells[n])]

AllDigits(s) == s # <<>> /\ \A n \in 1..Len(s) : IsDigit(s[n])

\* /^\d+(\.\d+)?$/.test(s)
IsNumeric(s) ==
  \/ AllDigits(s)
  \/ \E n \in 1..Len(s) :
       /\ s[n] = "."
       /\ AllDigits(SubSeq(s, 1, n - 1))
       /\ AllDigits(SubSeq(s, n + 1, Len(s)))

DigitValue(c) == (CHOOSE d \in 1..10 : DigitChars[d] = c) - 1

RECURSIVE ParseDigits(_)
ParseDigits(s) ==
  IF s = <<>> THEN 0
  ELSE 10 * ParseDigits(SubSeq(s, 1, Len(s) - 1)) + DigitValue(s[Len(s)])

\* Number(s), for s passing IsNumeric
Number(s) ==
  IF AllDigits(s) THEN Num(ParseDigits(s), 0)
  ELSE LET n == CHOOSE k \in 1..Len(s) : s[k] = "."
       IN  Num(ParseDigits(SubSeq(s, 1, n - 1) \o SubSeq(s, n + 1, Len(s))), Len(s) - n)

\* row[i] || '' : undefined past the end of the row
Cell(row, n) == IF n <= Len(row) THEN row[n] ELSE <<>>

\* the value stored under a header
Coerce(cell) == IF IsNumeric(cell) THEN Number(cell) ELSE Str(cell)

\* The decoded object, a function from the header names to values; a name
\* that occurs twice keeps the value of its last column.
csvToInvoice(t) ==
  LET lines   == SplitLines(trim(t))
      headers == TrimAll(SplitCommas(lines[1]))
      row     == IF Len(lines) >= 2 THEN TrimAll(SplitCommas(lines[2])) ELSE <<>>
      last(h) == CHOOSE n \in 1..Len(headers) :
                   headers[n] = h /\ \A j \in (n + 1)..Len(headers) : headers[j] # h
  IN  [h \in {headers[n] : n \in 1..Len(headers)} |-> Coerce(Cell(row, last(h)))]

FieldName ==
  [supplierVat |-> <<"s", "u", "p", "p", "l", "i", "e", "r", "V", "a", "t">>,
   customerVat |-> <<"c", "u", "s", "t", "o", "m", "e", "r", "V", "a", "t">>,
   date        |-> <<"d", "a", "t", "e">>,
   total       |-> <<"t", "o", "t", "a", "l">>,
   vat         |-> <<"v", "a", "t">>,
   currency    |-> <<"c", "u", "r", "r", "e", "n", "c", "y">>,
   invoiceId   |-> <<"i", "n", "v", "o", "i", "c", "e", "I", "d">>]

\* the decoded object as the validator reads it: property access by name
AsInv(o) ==
  Object([x \in Fields |-> IF FieldName[x] \in DOMAIN o THEN o[FieldName[x]] ELSE Undefined])

\* the CSV text of the self-test at line 257
sampleCsv ==
  <<"s", "u", "p", "p", "l", "i", "e", "r", "V", "a", "t", ",", "c", "u", "s", "t", "o", "m", "e", "r", "V", "a", "t", ",", "t", "o", "t", "a", "l", ",", "v", "a", "t", ",", "d", "a", "t", "e", ",", "c", "u", "r", "r", "e", "n", "c", "y", ",", "i", "n", "v", "o", "i", "c", "e", "I", "d", "\n", "5", "1", "2", "3", "4", "5", "6", "7", "9", ",", "5", "9", "8", "7", "6", "5", "4", "3", "1", ",", "1", "0", "0", "0", ",", "1", "7", "0", ",", "2", "0", "2", "5", "-", "0", "9", "-", "1", "2", ",", "I", "L", "S", ",", "I", "N", "V", "-", "2", "0", "2", "5", "-", "0", "0", "1", "2", "3">>

----------------------------------------------------------------------------
(* UploadAndValidate (lines 52-88).                                        *)
(*                                                                         *)
(* A file is its name, whether file.text() resolves, and its content: for  *)
(* a CSV file the text, for a JSON file the outcome of the platform's      *)
(* JSON.parse on it (a SyntaxError, or the decoded value).                 *)

File(name, readable, t, json) == [name |-> name, readable |-> readable, text |-> t, json |-> json]

SyntaxError == [ok |-> FALSE, data |-> NullInv]

Parsed(data) == [ok |-> TRUE, data |-> data]

UpperCase == <<"A", "B", "C", "D", "E", "F", "G", "H", "I", "J", "K", "L", "M", "N", "O", "P", "Q", "R", "S", "T", "U", "V", "W", "X", "Y", "Z">>

LowerCase == <<"a", "b", "c", "d", "e", "f", "g", "h", "i", "j", "k", "l", "m", "n", "o", "p", "q", "r", "s", "t", "u", "v", "w", "x", "y", "z">>

\* s.toLowerCase()
toLowerCase(s) ==
  [n \in 1..Len(s) |->
     IF \E k \in 1..Len(UpperCase) : UpperCase[k] = s[n]
     THEN LowerCase[CHOOSE k \in 1..Len(UpperCase) : UpperCase[k] = s[n]]
     ELSE s[n]]

\* s.split('.').pop()
RECURSIVE LastSegment(_)
LastSegment(s) ==
  IF \E n \in 1..Len(s) : s[n] = "."
  THEN LastSegment(SubSeq(s, (CHOOSE k \in 1..Len(s) : s[k] = ".") + 1, Len(s)))
  ELSE s

\* file.name.split('.').pop()?.toLowerCase()
Ext(name) == toLowerCase(LastSegment(name))

Awaits(file) == Ext(file.name) \in {<<"j", "s", "o", "n">>, <<"c", "s", "v">>}

Failure(message) == [ok |-> FALSE, data |-> NullInv, message |-> message]

Success(data) == [ok |-> TRUE, data |-> data, message |-> ""]

\* The try block, lines 63-68: the decoded data, or the message of the
\* error caught at line 69.
TryDecode(file) ==
  IF Ext(file.name) = <<"j", "s", "o", "n">>
  THEN IF ~file.readable THEN Failure("NotReadableError")
       ELSE IF ~file.json.ok THEN Failure("SyntaxError")
       ELSE Success(file.json.data)
  ELSE IF Ext(file.name) = <<"c", "s", "v">>
  THEN IF ~file.readable THEN Failure("NotReadableError")
       ELSE Success(AsInv(csvToInvoice(file.text)))
  ELSE Failure("JSON/CSV only")

\* meta: {}
NoMeta == <<>>

\* mutant: the score and level of the parser report computed from its finding
ParserReportScored(message) ==
  Report("YELLOW", 75, <<[code |-> "PARSER", severity |-> "HIGH", message |-> message]>>, NoMeta)

\* the report set at line 71
ParserReport(message) ==
  Report("RED", 0, <<[code |-> "PARSER", severity |-> "HIGH", message |-> message]>>, NoMeta)

Call(file, st, validated) == [file |-> file, st |-> st, validated |-> validated]

\* onFiles up to its first suspension point: lines 60-61, then either
\* await file.text() (json, csv) or the throw of line 68 caught at line 69.
OnFiles(file) ==
  /\ Len(calls) < MaxUploads
  /\ fileName' = Str(file.name)
  /\ IF Awaits(file)
     THEN /\ loading' = TRUE
          /\ report' = NoReport
          /\ calls' = Append(calls, Call(file, "awaiting", FALSE))
     ELSE /\ loading' = FALSE
          /\ report' = ParserReport(TryDecode(file).message)
          /\ calls' = Append(calls, Call(file, "returned", FALSE))
  /\ UNCHANGED <<rawInvoice, inv, out, text, obj>>

\* onFiles from the settling of file.text() to its end: lines 65/67, then
\* 70-72 on an error, else 74-77.  When validateInvoiceLocally throws, the
\* promise onFiles returned is rejected with nobody to handle it: lines 76
\* and 77 do not run.
OnFilesResume(n) ==
  /\ n \in 1..Len(calls)
  /\ calls[n].st = "awaiting"
  /\ LET d == TryDecode(calls[n].file)
         r == validateInvoiceLocally(d.data)
     IN  IF ~d.ok
         THEN /\ loading' = FALSE
              /\ report' = ParserReport(d.message)
              /\ calls' = [calls EXCEPT ![n].st = "returned"]
              /\ UNCHANGED rawInvoice
         ELSE /\ rawInvoice' = d.data
              /\ IF r.threw
                 THEN /\ calls' = [calls EXCEPT ![n].st = "rejected", ![n].validated = TRUE]
                      /\ UNCHANGED <<report, loading>>
                 ELSE /\ report' = r.report
                      /\ loading' = FALSE
                      /\ calls' = [calls EXCEPT ![n].st = "returned", ![n].validated = TRUE]
  /\ UNCHANGED <<fileName, inv, out, text, obj>>

\* lines 83-88
loadSample ==
  /\ rawInvoice' = sampleInvoice
  /\ report' = validateInvoiceLocally(sampleInvoice).report
  /\ UNCHANGED <<fileName, loading, calls, inv, out, text, obj>>

----------------------------------------------------------------------------
(* Specification of one validateInvoiceLocally call on an input drawn from *)
(* the records below.                                                      *)

FieldValues ==
  [supplierVat |-> {Undefined, Null, Str(<<>>), Str(<<"5", "1", "2", "3", "4", "5", "6", "7", "9">>), Str(<<"1", "2", "3", "4", "5">>),
                    Num(512345679, 0), Obj},
   customerVat |-> {Undefined, Str(<<"5", "9", "8", "7", "6", "5", "4", "3", "1">>), Str(<<"5", "9", "-", "8", "7", "6", "5", "4", "3">>), Num(0, 0)},
   date        |-> {Undefined, Str(<<>>), Str(<<"2", "0", "2", "5", "-", "0", "9", "-", "1", "2">>), True},
   total       |-> {Undefined, Null, Num(0, 0), Num(1000, 0), Num(117, 0), Str(<<"1", "0", "0", "0">>)},
   vat         |-> {Undefined, Num(0, 0), Num(170, 0), Num(17, 0), Num(175, MaxFrac - 1)},
   currency    |-> {Undefined, Str(<<"I", "L", "S">>), Str(<<"E", "U", "R">>), Str(<<"G", "B", "P">>)},
   invoiceId   |-> {Undefined, Str(<<"A", "B">>), Str(<<"I", "N", "V", "-", "2", "0", "2", "5", "-", "0", "0", "1", "2", "3">>), Num(12, 0)}]

Inputs ==
  {NullInv, UndefinedInv, PrimitiveInv}
    \cup {Object(f) : f \in [supplierVat : FieldValues.supplierVat,
                             customerVat : FieldValues.customerVat,
                             date        : FieldValues.date,
                             total       : FieldValues.total,
                             vat         : FieldValues.vat,
                             currency    : FieldValues.currency,
                             invoiceId   : FieldValues.invoiceId]}

Ready == [st |-> "ready", report |-> NoReport]

CsvReady == [st |-> "ready", v |-> <<>>]

InitEngine ==
  /\ inv \in Inputs
  /\ out = Ready
  /\ fileName = Null /\ rawInvoice = NullInv /\ report = NoReport
  /\ loading = FALSE /\ calls = <<>>
  /\ text = <<>> /\ obj = CsvReady

Validate ==
  /\ out.st = "ready"
  /\ LET r == validateInvoiceLocally(inv)
     IN  out' = [st |-> IF r.threw THEN "threw" ELSE "returned", report |-> r.report]
  /\ UNCHANGED <<fileName, rawInvoice, report, loading, calls, inv, text, obj>>

NextEngine == Validate

SpecEngine == InitEngine /\ [][NextEngine]_vars

----------------------------------------------------------------------------
(* Properties of validateInvoiceLocally, checked under SpecEngine.         *)

Returned == out.st = "returned"

Codes(issues) == [n \in 1..Len(issues) |-> issues[n].code]

HasCode(r, code) == \E n \in 1..Len(r.issues) : r.issues[n].code = code

\* C1: validateInvoiceLocally never throws: whatever the input (an object
\* with any of the fields of any type, an empty object, null, undefined),
\* the call returns a report.
C1_NeverThrows ==
  out.st # "ready" => out.st = "returned" /\ out.report.isNull = FALSE

\* the fields that have a presence check (rules 1 to 5)
PresenceFields == {"supplierVat", "customerVat", "date", "total", "vat"}

PresencePasses(x, v) == IF x \in {"total", "vat"} THEN ~IsNullish(v) ELSE Truthy(v)

\* the records r with f = v that fix a failing presence check of inv
Fixes(x, v) ==
  /\ x \in PresenceFields
  /\ v \in FieldValues[x]
  /\ ~PresencePasses(x, inv.f[x])
  /\ PresencePasses(x, v)

\* C4 as stated: setting a missing field to a value that passes its presence
\* check, all else equal, never decreases the score.
C4_Monotone ==
  (Returned /\ inv.k = "object") =>
    \A x \in Fields : \A v \in FieldValues[x] :
      Fixes(x, v) =>
        validateInvoiceLocally(With(inv, x, v)).report.score >= out.report.score

\* the completed total/vat pair fails the arithmetic check by more than the
\* presence finding it removes: SUBTOTAL_NEG (25) against VAT (12), or
\* VAT_MISMATCH and SUBTOTAL_NEG (37) against TOTAL (25)
ArithmeticOutweighs(x, r) ==
  \/ x = "vat" /\ HasCode(r, "SUBTOTAL_NEG")
  \/ x = "total" /\ HasCode(r, "SUBTOTAL_NEG") /\ HasCode(r, "VAT_MISMATCH")

\* C4 amended: the score does not decrease, except when the field is total
\* or vat and the arithmetic check it enables outweighs the removed finding;
\* then the score is strictly lower.
C4_MonotoneAmended ==
  (Returned /\ inv.k = "object") =>
    \A x \in Fields : \A v \in FieldValues[x] :
      Fixes(x, v) =>
        LET r == validateInvoiceLocally(With(inv, x, v)).report
        IN  IF ArithmeticOutweighs(x, r)
            THEN r.score < out.report.score
            ELSE r.score >= out.report.score

\* an empty record's supplierVat can be set to a malformed number (the
\* format finding replaces the presence finding) and its vat to a number
C4_Witness ==
  /\ Returned /\ inv.k = "object"
  /\ Fixes("supplierVat", Str(<<"1", "2", "3", "4", "5">>))
  /\ Fixes("vat", Num(170, 0))
  /\ IsNumber(inv.f["total"])

NineDigits(v) == v.t \in {"string", "number"} /\ IsNineDigits(String(v))

\* every field present and well-formed
WellFormed(i) ==
  /\ i.k = "object"
  /\ NineDigits(i.f["supplierVat"])
  /\ NineDigits(i.f["customerVat"])
  /\ i.f["date"].t = "string" /\ i.f["date"].s # <<>>
  /\ i.f["currency"] \in {Str(<<"I", "L", "S">>), Str(<<"U", "S", "D">>), Str(<<"E", "U", "R">>)}
  /\ Truthy(i.f["invoiceId"]) /\ Len(String(i.f["invoiceId"])) >= 3
  /\ IsNumber(i.f["total"]) /\ IsNumber(i.f["vat"])
  /\ Subtotal(i.f["total"], i.f["vat"], MaxFrac) > 0

\* |round((total - vat) * 0.17, 2) - vat| > 1
VatOff(i) ==
  DiffAboveOne(ExpectedVatCents(Subtotal(i.f["total"], i.f["vat"], MaxFrac), MaxFrac),
               i.f["vat"])

\* C6: a well-formed record whose vat is off the 17% rate by more than 1
\* gets exactly one finding, VAT_MISMATCH, score 88 and level GREEN.
C6_OnlyVatMismatch ==
  (Returned /\ WellFormed(inv) /\ VatOff(inv)) =>
    /\ Codes(out.report.issues) = <<"VAT_MISMATCH">>
    /\ out.report.score = 88
    /\ out.report.level = "GREEN"

C6_Witness ==
  /\ Returned /\ inv = sampleInvoice
  /\ WellFormed(inv) /\ VatOff(inv)
  /\ out.report.score = 88

RECURSIVE PenaltySum(_, _)
PenaltySum(issues, n) ==
  IF n = 0 THEN 0
  ELSE PenaltySum(issues, n - 1)
       + (CASE issues[n].severity = "HIGH" -> 25
            [] issues[n].severity = "MED"  -> 12
            [] issues[n].severity = "LOW"  -> 5)

\* C7: the score is an integer of 0..100 and equals 100 minus the summed
\* penalties (HIGH 25, MED 12, LOW 5) of all findings, clamped to 0..100.
C7_Score ==
  Returned =>
    LET P == PenaltySum(out.report.issues, Len(out.report.issues))
    IN  /\ out.report.score \in 0..100
        /\ out.report.score = (IF 100 - P < 0 THEN 0 ELSE IF 100 - P > 100 THEN 100 ELSE 100 - P)

\* findings of all three severities, at the lowest score a record can get
C7_Witness ==
  /\ Returned
  /\ \A sev \in {"HIGH", "MED", "LOW"} :
       \E n \in 1..Len(out.report.issues) : out.report.issues[n].severity = sev
  /\ out.report.score = 4

\* C8: the level is GREEN from 85 up, YELLOW from 60 to 84, RED below 60.
C8_Level ==
  Returned =>
    /\ out.report.score >= 85 => out.report.level = "GREEN"
    /\ (out.report.score >= 60 /\ out.report.score < 85) => out.report.level = "YELLOW"
    /\ out.report.score < 60 => out.report.level = "RED"

\* the reachable score next below the GREEN band
C8_Witness == Returned /\ out.report.score = 83 /\ out.report.level = "YELLOW"

RuleOrder ==
  <<"SUPPLIER_VAT", "CUSTOMER_VAT", "DATE", "TOTAL", "VAT", "SUPPLIER_VAT_FMT",
    "CUSTOMER_VAT_FMT", "VAT_MISMATCH", "SUBTOTAL_NEG", "CURRENCY_UNSUPPORTED",
    "INVOICE_ID_WEAK">>

RulePosition(code) == CHOOSE k \in 1..Len(RuleOrder) : RuleOrder[k] = code

\* each rule's own condition, read off the record alone
Fires(code, i) ==
  LET bothNumbers == IsNumber(Get(i, "total")) /\ IsNumber(Get(i, "vat"))
  IN  CASE code = "SUPPLIER_VAT" -> ~Truthy(Get(i, "supplierVat"))
        [] code = "CUSTOMER_VAT" -> ~Truthy(Get(i, "customerVat"))
        [] code = "DATE" -> ~Truthy(Get(i, "date"))
        [] code = "TOTAL" -> IsNullish(Get(i, "total"))
        [] code = "VAT" -> IsNullish(Get(i, "vat"))
        [] code = "SUPPLIER_VAT_FMT" ->
             Truthy(Get(i, "supplierVat")) /\ ~IsNineDigits(String(Get(i, "supplierVat")))
        [] code = "CUSTOMER_VAT_FMT" ->
             Truthy(Get(i, "customerVat")) /\ ~IsNineDigits(String(Get(i, "customerVat")))
        [] code = "VAT_MISMATCH" -> bothNumbers /\ VatOff(i)
        [] code = "SUBTOTAL_NEG" ->
             bothNumbers /\ Subtotal(Get(i, "total"), Get(i, "vat"), MaxFrac) <= 0
        [] code = "CURRENCY_UNSUPPORTED" ->
             Truthy(Get(i, "currency"))
               /\ Get(i, "currency") \notin {Str(<<"I", "L", "S">>), Str(<<"U", "S", "D">>), Str(<<"E", "U", "R">>)}
        [] code = "INVOICE_ID_WEAK" ->
             Truthy(Get(i, "invoiceId")) /\ Len(String(Get(i, "invoiceId"))) < 3

\* C9: the codes of the findings are a subsequence of the rule order (each
\* at most once, in rule order), and a rule's finding is present exactly
\* when the rule's own condition holds, whatever the other rules found.
C9_RuleOrder ==
  Returned =>
    LET codes == Codes(out.report.issues)
    IN  /\ \A n \in 1..Len(codes) : \E k \in 1..Len(RuleOrder) : RuleOrder[k] = codes[n]
        /\ \A n \in 1..(Len(codes) - 1) : RulePosition(codes[n]) < RulePosition(codes[n + 1])
        /\ \A k \in 1..Len(RuleOrder) :
             (\E n \in 1..Len(codes) : codes[n] = RuleOrder[k]) <=> Fires(RuleOrder[k], inv)

\* seven findings at once: failing earlier checks beside later ones
C9_Witness ==
  /\ Returned
  /\ Len(out.report.issues) = 7
  /\ HasCode(out.report, "SUPPLIER_VAT_FMT")
  /\ HasCode(out.report, "VAT_MISMATCH")
  /\ HasCode(out.report, "SUBTOTAL_NEG")
  /\ HasCode(out.report, "INVOICE_ID_WEAK")

----------------------------------------------------------------------------
(* Specification of one csvToInvoice call on a text drawn from the texts   *)
(* below: a header line, a line break and one data row, or less.           *)

RECURSIVE Join(_, _)
Join(parts, sep) ==
  IF Len(parts) = 0 THEN <<>>
  ELSE IF Len(parts) = 1 THEN parts[1]
  ELSE parts[1] \o sep \o Join(Tail(parts), sep)

CsvHeaders ==
  {<<"s", "u", "p", "p", "l", "i", "e", "r", "V", "a", "t", ",", "c", "u", "s", "t", "o", "m", "e", "r", "V", "a", "t", ",", "t", "o", "t", "a", "l", ",", "v", "a", "t", ",", "d", "a", "t", "e", ",", "c", "u", "r", "r", "e", "n", "c", "y", ",", "i", "n", "v", "o", "i", "c", "e", "I", "d">>,
   <<" ", "s", "u", "p", "p", "l", "i", "e", "r", "V", "a", "t", " ", ",", " ", "c", "u", "s", "t", "o", "m", "e", "r", "V", "a", "t", ",", "t", "o", "t", "a", "l", ",", "v", "a", "t", ",", "d", "a", "t", "e", ",", "c", "u", "r", "r", "e", "n", "c", "y", ",", "t", "o", "t", "a", "l">>}

CsvRows ==
  {Join(<<a, b, c, d, <<"2", "0", "2", "5", "-", "0", "9", "-", "1", "2">>, e, f>>, <<",">>) :
     a \in {<<"5", "1", "2", "3", "4", "5", "6", "7", "9">>, <<"1", "2", "3", "4", "5">>, <<>>},
     b \in {<<"5", "9", "8", "7", "6", "5", "4", "3", "1">>, <<" ", "5", "9", "8", "7", "6", "5", "4", "3", "1", " ">>},
     c \in {<<"1", "0", "0", "0">>, <<"1", "0", "0", "0", ".", "5", "0">>, <<"1", "e", "3">>},
     d \in {<<"1", "7", "0">>, <<"1", "7", ".", "5">>, <<"a", "b", "c">>},
     e \in {<<"I", "L", "S">>, <<"G", "B", "P">>},
     f \in {<<"I", "N", "V", "-", "2", "0", "2", "5", "-", "0", "0", "1", "2", "3">>, <<"1", "2">>}}

CsvTexts ==
  {Join(<<h, r>>, eol) : h \in CsvHeaders, r \in CsvRows, eol \in {<<"\n">>, <<"\r", "\n">>}}
    \cup {<<>>, <<"t", "o", "t", "a", "l", ",", "v", "a", "t">>, <<"t", "o", "t", "a", "l", ",", "v", "a", "t", ",", "d", "a", "t", "e", "\n", "1", "1", "7">>, <<"\n", "t", "o", "t", "a", "l", ",", "v", "a", "t", "\n", "1", "1", "7", ",", "1", "7", "\n", "2", "0", "0", ",", "3", "4", "\n">>}

InitCsv ==
  /\ text \in CsvTexts
  /\ obj = CsvReady
  /\ inv = NullInv /\ out = Ready
  /\ fileName = Null /\ rawInvoice = NullInv /\ report = NoReport
  /\ loading = FALSE /\ calls = <<>>

Decode ==
  /\ obj.st = "ready"
  /\ obj' = [st |-> "returned", v |-> csvToInvoice(text)]
  /\ UNCHANGED <<fileName, rawInvoice, report, loading, calls, inv, out, text>>

NextCsv == Decode

SpecCsv == InitCsv /\ [][NextCsv]_vars

\* C5: the self-test's CSV decodes to a record keyed by the header names in
\* which supplierVat and customerVat stay strings and total and vat become
\* numbers.
C5_SampleCsv ==
  (text = sampleCsv /\ obj.st = "returned") =>
    /\ DOMAIN obj.v = {FieldName[x] : x \in Fields}
    /\ obj.v[FieldName.supplierVat] = Str(<<"5", "1", "2", "3", "4", "5", "6", "7", "9">>)
    /\ obj.v[FieldName.customerVat] = Str(<<"5", "9", "8", "7", "6", "5", "4", "3", "1">>)
    /\ obj.v[FieldName.total] = Num(1000, 0)
    /\ obj.v[FieldName.vat] = Num(170, 0)
    /\ obj.v[FieldName.date] = Str(<<"2", "0", "2", "5", "-", "0", "9", "-", "1", "2">>)
    /\ obj.v[FieldName.currency] = Str(<<"I", "L", "S">>)
    /\ obj.v[FieldName.invoiceId] = Str(<<"I", "N", "V", "-", "2", "0", "2", "5", "-", "0", "0", "1", "2", "3">>)

\* what the code returns there
C5_SampleCsvDecoded ==
  (text = sampleCsv /\ obj.st = "returned") =>
    /\ DOMAIN obj.v = {FieldName[x] : x \in Fields}
    /\ obj.v[FieldName.supplierVat] = Num(512345679, 0)
    /\ obj.v[FieldName.customerVat] = Num(598765431, 0)
    /\ obj.v[FieldName.total] = Num(1000, 0)
    /\ obj.v[FieldName.vat] = Num(170, 0)
    /\ obj.v[FieldName.date] = Str(<<"2", "0", "2", "5", "-", "0", "9", "-", "1", "2">>)
    /\ obj.v[FieldName.currency] = Str(<<"I", "L", "S">>)
    /\ obj.v[FieldName.invoiceId] = Str(<<"I", "N", "V", "-", "2", "0", "2", "5", "-", "0", "0", "1", "2", "3">>)

----------------------------------------------------------------------------
(* Specification of the component: uploads and sample loads in any order,  *)
(* the uploads interleaving at their suspension point.                     *)

Files ==
  {File(<<"a", ".", "j", "s", "o", "n">>, TRUE, <<>>, Parsed(sampleInvoice)),
   File(<<"e", ".", "j", "s", "o", "n">>, TRUE, <<>>, Parsed(Object(NoFields))),
   File(<<"n", ".", "J", "S", "O", "N">>, TRUE, <<>>, Parsed(NullInv)),
   File(<<"b", "a", "d", ".", "j", "s", "o", "n">>, TRUE, <<>>, SyntaxError),
   File(<<"s", ".", "c", "s", "v">>, TRUE, sampleCsv, SyntaxError),
   File(<<"u", ".", "c", "s", "v">>, FALSE, <<>>, SyntaxError),
   File(<<"c", ".", "t", "x", "t">>, TRUE, <<>>, SyntaxError),
   File(<<"j", "s", "o", "n">>, TRUE, <<>>, Parsed(PrimitiveInv))}

Init ==
  /\ fileName = Null
  /\ rawInvoice = NullInv
  /\ report = NoReport
  /\ loading = FALSE
  /\ calls = <<>>
  /\ inv = NullInv /\ out = Ready
  /\ text = <<>> /\ obj = CsvReady

Next ==
  \/ \E file \in Files : OnFiles(file)
  \/ \E n \in 1..MaxUploads : OnFilesResume(n)
  \/ loadSample

Spec == Init /\ [][Next]_vars

\* call n ends in this step: it returns or its promise is rejected
Ends(n) ==
  /\ n \in 1..Len(calls')
  /\ calls'[n].st # "awaiting"
  /\ n > Len(calls) \/ calls[n].st = "awaiting"

\* C2: every onFiles invocation ends with a report set and loading = false,
\* whatever the extension and the decoded content; none ends in an
\* unhandled failure.
C2_CallInReportOut ==
  [][\A n \in 1..MaxUploads :
       Ends(n) => /\ calls'[n].st = "returned"
                  /\ report'.isNull = FALSE
                  /\ loading' = FALSE]_vars

\* decoding fails: an extension other than json/csv, a text that cannot be
\* read, or a JSON syntax error
DecodingFails(file) ==
  \/ Ext(file.name) \notin {<<"j", "s", "o", "n">>, <<"c", "s", "v">>}
  \/ ~file.readable
  \/ Ext(file.name) = <<"j", "s", "o", "n">> /\ ~file.json.ok

DecoderMessage(file) ==
  IF Ext(file.name) \notin {<<"j", "s", "o", "n">>, <<"c", "s", "v">>} THEN "JSON/CSV only"
  ELSE IF ~file.readable THEN "NotReadableError"
  ELSE "SyntaxError"

DegenerateReport(file) ==
  [isNull |-> FALSE, level |-> "RED", score |-> 0, meta |-> <<>>,
   issues |-> <<[code |-> "PARSER", severity |-> "HIGH", message |-> DecoderMessage(file)]>>]

\* C3: when decoding fails, the invocation ends with the report RED, score 0
\* and the single finding PARSER/HIGH carrying the decoder's message, and
\* validateInvoiceLocally was not invoked for the file.
C3_ParserReport ==
  [][\A n \in 1..MaxUploads :
       (Ends(n) /\ DecodingFails(calls'[n].file)) =>
          /\ calls'[n].st = "returned"
          /\ report' = DegenerateReport(calls'[n].file)
          /\ Len(report'.issues) = 1
          /\ calls'[n].validated = FALSE]_vars

\* a JSON syntax error, met after the suspension point
C3_Witness ==
  \E n \in 1..Len(calls) :
    /\ calls[n].st = "returned"
    /\ Ext(calls[n].file.name) = <<"j", "s", "o", "n">>
    /\ DecodingFails(calls[n].file)
    /\ ~calls[n].validated
    /\ report = DegenerateReport(calls[n].file)

\* C10: whenever a report and a raw invoice are both held, the report is
\* validateInvoiceLocally of that raw invoice.
C10_ReportOfRawInvoice ==
  (report.isNull = FALSE /\ rawInvoice.k # "null") =>
    report = validateInvoiceLocally(rawInvoice).report

====
